---- MODULE Spec2Model ----
(***************************************************************************)
(* A model of ambassador's IRBaseMapping (ambassador/ir/irbasemapping.py)  *)
(* and of AmbassadorTest's index and post_manifest (abstract_tests.py).    *)
(*                                                                         *)
(* IRBaseMapping.setup and IRBaseMapping.match_tls_context are translated  *)
(* from the source.  The subclasses' _group_id and _route_weight, and the  *)
(* grouping / ordering / balancing / binding pass that calls them, are not *)
(* part of the two source files; they are modelled after sections 4.1-4.5  *)
(* of the specification.                                                   *)
(***************************************************************************)
EXTENDS Integers, Sequences, FiniteSets, TLC

VARIABLES
    mappings,       \* id -> the declared attributes of the Mapping
    tls_contexts,   \* what ir.get_tls_contexts() returns, in order
    group_id,       \* id -> self.group_id, or Unset
    route_weight,   \* id -> self.route_weight, or Unset
    sni,            \* id -> self.sni
    pc,             \* id -> where the last call of setup stands
    ret,            \* the last call of match_tls_context and what it returned
    setup_calls,    \* id -> number of calls of setup so far
    rw_invoked,     \* id -> _route_weight was called at least once
    matched,        \* id -> some call of match_tls_context returned a context
    first_gid,      \* id -> the first group_id setup assigned, or Unset
    first_rw,       \* id -> the first route_weight setup assigned, or Unset
    input,          \* the mappings handed to the reconciliation pass, in order
    phase,          \* where the reconciliation pass stands
    groups,         \* the RouteGroups: records of groupId and ordered members
    warnings,       \* the groupIds flagged as misconfigured
    binding,        \* host -> the TLS context bound to it
    canary_group,   \* a group handed to the balancer: its declared weights
    canary_result,  \* what the balancer made of canary_group
    OFFSET,         \* AmbassadorTest.OFFSET, shared by all instances
    _index,         \* instance -> self._index: <<>> for None, <<n>> for n
    index_pc,       \* instance -> where its read of the index property stands
    offset_read,    \* instance -> the OFFSET its `OFFSET += 1` has loaded
    index_returned, \* instance -> what its last read of index returned
    DEV,            \* the module's DEV, fixed when the module is loaded
    IMAGE_BUILT,    \* AmbassadorTest.IMAGE_BUILT, shared by all instances
    post_self,      \* the instance whose post_manifest is running, or None
    post_pc,        \* where that call of post_manifest stands
    post_calls,     \* number of calls of post_manifest so far
    cleanups,       \* number of times the old containers were killed and removed
    builds,         \* number of times `docker build` was run
    exit_called,    \* pytest.exit was called for a failed build
    launched        \* the instances whose `docker run` was run

mapping_vars == <<mappings, tls_contexts, group_id, route_weight, sni, pc, ret,
                  setup_calls, rw_invoked, matched, first_gid, first_rw>>

compile_vars == <<input, phase, groups, warnings, binding>>

canary_vars == <<canary_group, canary_result>>

test_vars == <<OFFSET, _index, index_pc, offset_read, index_returned>>

post_vars == <<DEV, IMAGE_BUILT, post_self, post_pc, post_calls, cleanups, builds,
               exit_called, launched>>

vars == <<mapping_vars, compile_vars, canary_vars, test_vars, post_vars>>

(***************************************************************************)
(* Bounds                                                                  *)
(***************************************************************************)
NMappings == 2
MaxContexts == 2
MaxSetups == 2
NTests == 3

MappingIds == 1..NMappings

TestIds == 1..NTests

\* An attribute that was never assigned.
Unset == <<>>
\* Python's None as the result of match_tls_context; a context is returned
\* as its position in ir.get_tls_contexts().
None == 0
\* An exception leaving match_tls_context.
Raised == -1

(***************************************************************************)
(* Mapping kinds: IRBaseMapping itself, and subclasses that override       *)
(* _group_id, _route_weight, or both.                                      *)
(***************************************************************************)
Kinds == {"IRBaseMapping", "GroupOnlyMapping", "WeightOnlyMapping",
          "IRHTTPMapping", "IRTCPMapping"}

OverridesGroupId(kind) == kind \in {"GroupOnlyMapping", "IRHTTPMapping", "IRTCPMapping"}

OverridesRouteWeight(kind) == kind \in {"WeightOnlyMapping", "IRHTTPMapping", "IRTCPMapping"}

\* resourceKey of mapping m: a string, as the sequence of its characters'
\* codes.  Keys are unique and their order is not the order of the ids.
RKey(m) == IF m % 2 = 1 THEN <<9 - m>> ELSE <<1, m>>

\* A prefix is the sequence of its path segments; a trailing "/" shows as a
\* last, empty segment.
NormalizePrefix(prefix) ==
    IF Len(prefix) > 0 /\ prefix[Len(prefix)] = ""
    THEN SubSeq(prefix, 1, Len(prefix) - 1)
    ELSE prefix

AnyHost == "*"

\* The optional declared canary percentage of a Mapping.
NoWeight == [declared |-> FALSE, value |-> 0]

Weight(v) == [declared |-> TRUE, value |-> v]

MappingInputs(kinds, hosts, prefixes, precedences, ports, discs, weights) ==
    [kind : kinds, host : hosts, prefix : prefixes, precedence : precedences,
     port : ports, disc : discs, weight : weights]

(***************************************************************************)
(* _group_id and _route_weight.  IRBaseMapping's own raise                  *)
(* NotImplementedError; a subclass that overrides them computes, from the  *)
(* declared attributes, the group key (kind, host or the any-host          *)
(* sentinel, normalized prefix, and for a TCP mapping its port) and the    *)
(* sort key (precedence, for a TCP mapping its discriminant, path          *)
(* specificity, resourceKey).                                              *)
(***************************************************************************)
GroupKey(a) ==
    <<a.kind, IF a.host = "" THEN AnyHost ELSE a.host, NormalizePrefix(a.prefix)>>
        \o (IF a.kind = "IRTCPMapping" THEN <<a.port>> ELSE <<>>)

RouteWeightKey(a, rkey) ==
    <<a.precedence>>
        \o (IF a.kind = "IRTCPMapping" THEN <<a.disc>> ELSE <<>>)
        \o <<Len(NormalizePrefix(a.prefix)), rkey>>

\* A group key that reads the derived sni flag as well.
_group_id_reads_sni(m) ==
    IF OverridesGroupId(mappings[m].kind)
    THEN [raised |-> FALSE, value |-> GroupKey(mappings[m]) \o <<sni[m]>>]
    ELSE [raised |-> TRUE, value |-> Unset]

_group_id(m) ==
    IF OverridesGroupId(mappings[m].kind)
    THEN [raised |-> FALSE, value |-> GroupKey(mappings[m])]
    ELSE [raised |-> TRUE, value |-> Unset]

_route_weight(m) ==
    IF OverridesRouteWeight(mappings[m].kind)
    THEN [raised |-> FALSE, value |-> RouteWeightKey(mappings[m], RKey(m))]
    ELSE [raised |-> TRUE, value |-> Unset]

(***************************************************************************)
(* setup: self.group_id = self._group_id(), then                           *)
(* self.route_weight = self._route_weight(), then return True.  Nothing is *)
(* caught: an exception of either call leaves setup at once.  The program  *)
(* is single-threaded: a setup runs to its end before another starts.      *)
(***************************************************************************)
InSetup(m) == pc[m] = "group_id_assigned"

\* The first statement with the exception of _group_id swallowed.
setup_group_id_swallows(m) ==
    /\ ~InSetup(m)
    /\ \A o \in MappingIds : ~InSetup(o)
    /\ setup_calls' = [setup_calls EXCEPT ![m] = @ + 1]
    /\ LET r == _group_id(m) IN
        /\ pc' = [pc EXCEPT ![m] = "group_id_assigned"]
        /\ group_id' = IF r.raised THEN group_id ELSE [group_id EXCEPT ![m] = r.value]
        /\ first_gid' = IF r.raised \/ first_gid[m] # Unset THEN first_gid
                        ELSE [first_gid EXCEPT ![m] = r.value]
    /\ UNCHANGED <<mappings, tls_contexts, route_weight, sni, ret, rw_invoked,
                   matched, first_rw>>
    /\ UNCHANGED <<compile_vars, canary_vars, test_vars, post_vars>>

setup_group_id(m) ==
    /\ ~InSetup(m)
    /\ \A o \in MappingIds : ~InSetup(o)
    /\ setup_calls' = [setup_calls EXCEPT ![m] = @ + 1]
    /\ LET r == _group_id(m) IN
        IF r.raised
        THEN /\ pc' = [pc EXCEPT ![m] = "raised_in_group_id"]
             /\ UNCHANGED <<group_id, first_gid>>
        ELSE /\ pc' = [pc EXCEPT ![m] = "group_id_assigned"]
             /\ group_id' = [group_id EXCEPT ![m] = r.value]
             /\ first_gid' = IF first_gid[m] = Unset
                             THEN [first_gid EXCEPT ![m] = r.value]
                             ELSE first_gid
    /\ UNCHANGED <<mappings, tls_contexts, route_weight, sni, ret, rw_invoked,
                   matched, first_rw>>
    /\ UNCHANGED <<compile_vars, canary_vars, test_vars, post_vars>>

\* The second statement returning True although _route_weight raised.
setup_route_weight_swallows(m) ==
    /\ InSetup(m)
    /\ rw_invoked' = [rw_invoked EXCEPT ![m] = TRUE]
    /\ LET r == _route_weight(m) IN
        /\ pc' = [pc EXCEPT ![m] = "returned_true"]
        /\ route_weight' = IF r.raised THEN route_weight
                           ELSE [route_weight EXCEPT ![m] = r.value]
        /\ first_rw' = IF r.raised \/ first_rw[m] # Unset THEN first_rw
                       ELSE [first_rw EXCEPT ![m] = r.value]
    /\ UNCHANGED <<mappings, tls_contexts, group_id, sni, ret, setup_calls,
                   matched, first_gid>>
    /\ UNCHANGED <<compile_vars, canary_vars, test_vars, post_vars>>

setup_route_weight(m) ==
    /\ InSetup(m)
    /\ rw_invoked' = [rw_invoked EXCEPT ![m] = TRUE]
    /\ LET r == _route_weight(m) IN
        IF r.raised
        THEN /\ pc' = [pc EXCEPT ![m] = "raised_in_route_weight"]
             /\ UNCHANGED <<route_weight, first_rw>>
        ELSE /\ pc' = [pc EXCEPT ![m] = "returned_true"]
             /\ route_weight' = [route_weight EXCEPT ![m] = r.value]
             /\ first_rw' = IF first_rw[m] = Unset
                            THEN [first_rw EXCEPT ![m] = r.value]
                            ELSE first_rw
    /\ UNCHANGED <<mappings, tls_contexts, group_id, sni, ret, setup_calls,
                   matched, first_gid>>
    /\ UNCHANGED <<compile_vars, canary_vars, test_vars, post_vars>>

(***************************************************************************)
(* match_tls_context: the first context of ir.get_tls_contexts() one of    *)
(* whose hosts equals host.  A context's hosts entry is a list, or None    *)
(* when the key is missing; `context.get('hosts') or []` turns None and    *)
(* the empty list into []; iterating None would raise TypeError.           *)
(***************************************************************************)
NoHosts == [none |-> TRUE, list |-> <<>>]

HostList(l) == [none |-> FALSE, list |-> l]

\* context.get('hosts') without the `or []`.
hosts_of_without_default(context) == context.hosts

hosts_of(context) ==
    IF context.hosts.none \/ context.hosts.list = <<>>
    THEN HostList(<<>>)
    ELSE context.hosts

RECURSIVE host_in(_, _, _)
host_in(list, j, host) ==
    IF j > Len(list) THEN FALSE
    ELSE IF list[j] = host THEN TRUE
    ELSE host_in(list, j + 1, host)

RECURSIVE scan_contexts(_, _, _)
scan_contexts(contexts, i, host) ==
    IF i > Len(contexts) THEN None
    ELSE LET hosts == hosts_of(contexts[i]) IN
         IF hosts.none THEN Raised
         ELSE IF host_in(hosts.list, 1, host) THEN i
         ELSE scan_contexts(contexts, i + 1, host)

RECURSIVE scan_contexts_last(_, _, _)
scan_contexts_last(contexts, i, host) ==
    IF i < 1 THEN None
    ELSE IF host_in(hosts_of(contexts[i]).list, 1, host) THEN i
    ELSE scan_contexts_last(contexts, i - 1, host)

\* The scan keeping the last match instead of returning at the first.
match_result_last(host, contexts) == scan_contexts_last(contexts, Len(contexts), host)

match_result(host, contexts) == scan_contexts(contexts, 1, host)

\* self.sni written with the outcome of every call.
sni_after_match_resets(old, result) == result > None

sni_after_match(old, result) == IF result > None THEN TRUE ELSE old

match_tls_context(m, host) ==
    LET result == match_result(host, tls_contexts) IN
    /\ ~InSetup(m)
    /\ ret' = [m |-> m, host |-> host, context |-> result]
    /\ sni' = [sni EXCEPT ![m] = sni_after_match(sni[m], result)]
    /\ matched' = [matched EXCEPT ![m] = @ \/ result > None]
    /\ UNCHANGED <<mappings, tls_contexts, group_id, route_weight, pc,
                   setup_calls, rw_invoked, first_gid, first_rw>>
    /\ UNCHANGED <<compile_vars, canary_vars, test_vars, post_vars>>

(***************************************************************************)
(* The life of a set of mappings: any mapping may be set up (again), and   *)
(* match_tls_context may be called on any mapping with any host.           *)
(***************************************************************************)
Hosts == {"x.com", "y.com"}

HostsEntries == {NoHosts, HostList(<<>>), HostList(<<"x.com">>),
                 HostList(<<"y.com">>), HostList(<<"y.com", "x.com">>)}

RECURSIVE ContextLists(_)
ContextLists(n) ==
    IF n = 0 THEN {<<>>}
    ELSE LET shorter == ContextLists(n - 1) IN
         shorter \cup {Append(l, [hosts |-> h]) : l \in {s \in shorter : Len(s) = n - 1},
                                                  h \in HostsEntries}

NoCall == [m |-> 0, host |-> "", context |-> None]

InitDerived ==
    /\ group_id = [m \in MappingIds |-> Unset]
    /\ route_weight = [m \in MappingIds |-> Unset]
    /\ sni = [m \in MappingIds |-> FALSE]
    /\ pc = [m \in MappingIds |-> "constructed"]
    /\ ret = NoCall
    /\ setup_calls = [m \in MappingIds |-> 0]
    /\ rw_invoked = [m \in MappingIds |-> FALSE]
    /\ matched = [m \in MappingIds |-> FALSE]
    /\ first_gid = [m \in MappingIds |-> Unset]
    /\ first_rw = [m \in MappingIds |-> Unset]

NotBalanced == [weights |-> <<>>, warning |-> FALSE]

\* No reconciliation pass is under way.
InitNoPass ==
    /\ input = <<>>
    /\ phase = "collect"
    /\ groups = <<>>
    /\ warnings = {}
    /\ binding = <<>>

InitNoCanary ==
    /\ canary_group = <<>>
    /\ canary_result = NotBalanced

\* DEV when AMBASSADOR_DEV is not in the environment.
InitNoDev == DEV = FALSE

\* IMAGE_BUILT as the class body sets it, and no call of post_manifest yet.
InitImage ==
    /\ IMAGE_BUILT = FALSE
    /\ post_self = None
    /\ post_pc = "idle"
    /\ post_calls = 0
    /\ cleanups = 0
    /\ builds = 0
    /\ exit_called = FALSE
    /\ launched = {}

\* The class AmbassadorTest as loaded, and its instances as constructed.
InitTests ==
    /\ OFFSET = 0
    /\ _index = [t \in TestIds |-> <<>>]
    /\ index_pc = [t \in TestIds |-> "idle"]
    /\ offset_read = [t \in TestIds |-> 0]
    /\ index_returned = [t \in TestIds |-> <<>>]
    /\ InitImage

Init ==
    /\ mappings \in [MappingIds ->
                        MappingInputs(Kinds, {"x.com"}, {<<"a", "">>}, {0}, {0}, {0}, {NoWeight})
                        \cup MappingInputs({"IRHTTPMapping"}, {""}, {<<"a", "">>}, {0}, {0}, {0},
                                           {NoWeight})]
    /\ tls_contexts \in {<<>>, <<[hosts |-> HostList(<<"x.com">>)]>>}
    /\ InitDerived
    /\ InitNoPass
    /\ InitNoCanary
    /\ InitTests
    /\ InitNoDev

Next ==
    \E m \in MappingIds :
        \/ setup_calls[m] < MaxSetups /\ setup_group_id(m)
        \/ setup_route_weight(m)
        \/ \E host \in Hosts : match_tls_context(m, host)

Spec == Init /\ [][Next]_vars

(***************************************************************************)
(* The same life, over every list of TLS contexts up to MaxContexts, for   *)
(* mappings of a kind that sets up.                                        *)
(***************************************************************************)
InitTls ==
    /\ mappings \in [MappingIds -> MappingInputs({"IRHTTPMapping"}, {"x.com"}, {<<"a">>},
                                                 {0}, {0}, {0}, {NoWeight})]
    /\ tls_contexts \in ContextLists(MaxContexts)
    /\ InitDerived
    /\ InitNoPass
    /\ InitNoCanary
    /\ InitTests
    /\ InitNoDev

SpecTls == InitTls /\ [][Next]_vars

(***************************************************************************)
(* Claims about match_tls_context                                          *)
(***************************************************************************)
ListsHost(context, host) ==
    /\ ~context.hosts.none
    /\ \E j \in 1..Len(context.hosts.list) : context.hosts.list[j] = host

\* The positions of the contexts whose hosts list holds host.
Claiming(host) == {i \in 1..Len(tls_contexts) : ListsHost(tls_contexts[i], host)}

Called == ret.m \in MappingIds

\* C1: when some context lists the host, match_tls_context returns the one
\* at the smallest position among those that list it; a later context that
\* lists the host too is never returned.
C1_TlsFirstMatch ==
    Called /\ Claiming(ret.host) # {} =>
        /\ ret.context \in Claiming(ret.host)
        /\ \A i \in Claiming(ret.host) : ret.context <= i

\* Two contexts list the host of the call, and the call returned the first.
C1_Witness ==
    /\ Called
    /\ Cardinality(Claiming(ret.host)) >= 2
    /\ ret.context = 1

\* C2: when no context lists the host (no contexts at all, or contexts with
\* a missing or an empty hosts list among them), match_tls_context returns
\* None, raises nothing, and the sni flag of a mapping on which no call ever
\* matched is still false.
C2_NoMatchIsNone ==
    /\ Called /\ Claiming(ret.host) = {} => ret.context = None
    /\ Called => ret.context # Raised
    /\ Called /\ ret.context = None /\ ~matched[ret.m] => sni[ret.m] = FALSE

\* A call found no match among a context without hosts and a context with
\* an empty hosts list.
C2_Witness ==
    /\ Called
    /\ ret.context = None
    /\ sni[ret.m] = FALSE
    /\ \E i, j \in 1..Len(tls_contexts) :
        /\ tls_contexts[i].hosts.none
        /\ tls_contexts[j].hosts = HostList(<<>>)

\* C9: sni is true exactly when some call of match_tls_context on the
\* mapping returned a context (a later call without a match does not reset
\* it), and a step that is no step of setup changes neither group_id nor
\* route_weight nor the list of TLS contexts.
C9_SniOnlySetByMatch ==
    /\ [](\A m \in MappingIds : sni[m] = matched[m])
    /\ [][pc' = pc => /\ group_id' = group_id
                      /\ route_weight' = route_weight
                      /\ tls_contexts' = tls_contexts]_vars

\* The last call on a set-up mapping found no match, after an earlier call
\* on it had matched.
C9_Witness ==
    /\ Called
    /\ ret.context = None
    /\ sni[ret.m] = TRUE
    /\ group_id[ret.m] # Unset
    /\ route_weight[ret.m] # Unset

(***************************************************************************)
(* CanaryWeightBalancer (specification, section 4.3): a group's declared   *)
(* weights, in route-weight order, become integer percentages.             *)
(***************************************************************************)
TotalWeight == 100

MaxGroup == 3

Clamp(w) == IF w < 0 THEN 0 ELSE IF w > TotalWeight THEN TotalWeight ELSE w

RECURSIVE Sum(_)
Sum(seq) == IF seq = <<>> THEN 0 ELSE Head(seq) + Sum(Tail(seq))

\* An even split that leaves the remainder out.
even_split_without_remainder(total, n) == [i \in 1..n |-> total \div n]

\* total split evenly over n members, the remainder going one each to the
\* earliest members.
even_split(total, n) ==
    [i \in 1..n |-> (total \div n) + (IF i <= total % n THEN 1 ELSE 0)]

\* No member declares a weight.
balance_undeclared(ws) ==
    [weights |-> even_split(TotalWeight, Len(ws)), warning |-> FALSE]

\* Some members declare a weight and some do not: the declared weights
\* stand, clamped; what is left of 100 is split evenly over the others.
balance_mixed(ws) ==
    LET declared == Sum([i \in 1..Len(ws) |-> IF ws[i].declared THEN Clamp(ws[i].value) ELSE 0])
        rank(i) == Cardinality({j \in 1..i : ~ws[j].declared})
        left == IF declared >= TotalWeight THEN 0 ELSE TotalWeight - declared
        share == even_split(left, rank(Len(ws)))
    IN  [weights |-> [i \in 1..Len(ws) |->
                        IF ws[i].declared THEN Clamp(ws[i].value) ELSE share[rank(i)]],
         warning |-> declared >= TotalWeight]

\* Every member declares a weight: rescaled in proportion when the sum is
\* not 100, rounded, with at least 1 for a nonzero weight; the largest
\* weight takes up the difference to 100.
balance_declared(ws) ==
    LET clamped == [i \in 1..Len(ws) |-> Clamp(ws[i].value)]
        total == Sum(clamped)
        rounded(i) == (2 * clamped[i] * TotalWeight + total) \div (2 * total)
        scaled == [i \in 1..Len(ws) |->
                     IF clamped[i] > 0 /\ rounded(i) = 0 THEN 1 ELSE rounded(i)]
        largest == CHOOSE i \in 1..Len(ws) :
                     /\ \A j \in 1..Len(ws) : scaled[j] <= scaled[i]
                     /\ \A j \in 1..(i - 1) : scaled[j] < scaled[i]
    IN  IF total = TotalWeight
        THEN [weights |-> clamped, warning |-> FALSE]
        ELSE [weights |-> [scaled EXCEPT ![largest] = @ - (Sum(scaled) - TotalWeight)],
              warning |-> total > TotalWeight]

balance(ws) ==
    IF \A i \in 1..Len(ws) : ~ws[i].declared THEN balance_undeclared(ws)
    ELSE IF \E i \in 1..Len(ws) : ~ws[i].declared THEN balance_mixed(ws)
    ELSE balance_declared(ws)

BalanceGroup ==
    /\ canary_result = NotBalanced
    /\ canary_result' = balance(canary_group)
    /\ UNCHANGED <<mapping_vars, compile_vars, canary_group, test_vars, post_vars>>

DeclaredWeights == {NoWeight, Weight(0), Weight(1), Weight(70), Weight(80),
                    Weight(90), Weight(100), Weight(120)}

RECURSIVE SeqsUpTo(_, _)
SeqsUpTo(S, n) ==
    IF n = 0 THEN {<<>>}
    ELSE LET shorter == SeqsUpTo(S, n - 1) IN
         shorter \cup {Append(l, x) : l \in {q \in shorter : Len(q) = n - 1}, x \in S}

\* Every group of one to MaxGroup members but those in which every member
\* declares the weight 0, for which section 4.3 defines no rescaling.
InitCanary ==
    /\ canary_group \in {g \in SeqsUpTo(DeclaredWeights, MaxGroup) :
                            /\ g # <<>>
                            /\ \E i \in 1..Len(g) : g[i] # Weight(0)}
    /\ canary_result = NotBalanced
    /\ mappings = [m \in MappingIds |-> [kind |-> "IRHTTPMapping", host |-> "x.com",
                                         prefix |-> <<"a">>, precedence |-> 0, port |-> 0,
                                         disc |-> 0, weight |-> NoWeight]]
    /\ tls_contexts = <<>>
    /\ InitDerived
    /\ InitNoPass
    /\ InitTests
    /\ InitNoDev

SpecCanary == InitCanary /\ [][BalanceGroup]_vars

Balanced == canary_result.weights # <<>>

Mixed ==
    /\ \E i \in 1..Len(canary_group) : canary_group[i].declared
    /\ \E i \in 1..Len(canary_group) : ~canary_group[i].declared

DeclaredSum ==
    Sum([i \in 1..Len(canary_group) |->
            IF canary_group[i].declared THEN Clamp(canary_group[i].value) ELSE 0])

NonzeroKept ==
    \A i \in 1..Len(canary_group) :
        canary_group[i].declared /\ canary_group[i].value # 0
            => canary_result.weights[i] # 0

CanaryScenarios ==
    /\ balance(<<NoWeight, NoWeight, NoWeight>>).weights = <<34, 33, 33>>
    /\ balance(<<Weight(70), NoWeight>>).weights = <<70, 30>>
    /\ balance(<<Weight(80), Weight(90)>>) = [weights |-> <<47, 53>>, warning |-> TRUE]

(***************************************************************************)
(* GroupCompiler (specification, section 4.5): one reconciliation pass     *)
(* over the mappings of input.  Collect sets every mapping up, in order;   *)
(* an exception of setup aborts the pass.  Then Group, Order, Balance,     *)
(* Bind and Emit.                                                          *)
(***************************************************************************)
PassIds == {input[i] : i \in 1..Len(input)}

HasRaised(m) == pc[m] \in {"raised_in_group_id", "raised_in_route_weight"}

\* m is the first mapping of input not set up yet, and no setup has raised.
NextToCollect(m) ==
    /\ phase = "collect"
    /\ \A o \in PassIds : ~HasRaised(o)
    /\ \E i \in 1..Len(input) :
        /\ input[i] = m
        /\ pc[m] = "constructed"
        /\ \A j \in 1..(i - 1) : pc[input[j]] = "returned_true"

abort_pass ==
    /\ phase = "collect"
    /\ \E m \in PassIds : HasRaised(m)
    /\ phase' = "aborted"
    /\ UNCHANGED <<mapping_vars, input, groups, warnings, binding, canary_vars, test_vars, post_vars>>

GroupIndex(acc, gid) ==
    IF \E i \in 1..Len(acc) : acc[i].groupId = gid
    THEN CHOOSE i \in 1..Len(acc) : acc[i].groupId = gid
    ELSE 0

NewGroup(gid, m) == [groupId |-> gid, members |-> <<m>>, weights |-> <<>>]

\* A grouping that replaces the members of a group it has seen before.
RECURSIVE group_mappings_overwrites(_, _)
group_mappings_overwrites(seq, acc) ==
    IF seq = <<>> THEN acc
    ELSE LET m == Head(seq)
             at == GroupIndex(acc, group_id[m])
         IN  group_mappings_overwrites(Tail(seq),
                 IF at = 0 THEN Append(acc, NewGroup(group_id[m], m))
                 ELSE [acc EXCEPT ![at] = NewGroup(group_id[m], m)])

\* Partition by group_id: each mapping joins the group of its key, or opens it.
RECURSIVE group_mappings(_, _)
group_mappings(seq, acc) ==
    IF seq = <<>> THEN acc
    ELSE LET m == Head(seq)
             at == GroupIndex(acc, group_id[m])
         IN  group_mappings(Tail(seq),
                 IF at = 0 THEN Append(acc, NewGroup(group_id[m], m))
                 ELSE [acc EXCEPT ![at].members = Append(@, m)])

group_pass ==
    /\ phase = "collect"
    /\ \A m \in PassIds : pc[m] = "returned_true"
    /\ groups' = group_mappings(input, <<>>)
    /\ phase' = "grouped"
    /\ UNCHANGED <<mapping_vars, input, warnings, binding, canary_vars, test_vars, post_vars>>

\* Lexicographic order of resourceKeys.
RECURSIVE lex_less(_, _)
lex_less(a, b) ==
    IF a = <<>> THEN b # <<>>
    ELSE IF b = <<>> THEN FALSE
    ELSE IF Head(a) = Head(b) THEN lex_less(Tail(a), Tail(b))
    ELSE Head(a) < Head(b)

\* The discriminants of a route weight: what lies between the precedence and
\* the path specificity.
Discriminants(w) == SubSeq(w, 2, Len(w) - 2)

\* An order that breaks ties by the larger resourceKey.
sorts_before_reversed_tie(a, b) ==
    IF a[1] # b[1] THEN a[1] > b[1]
    ELSE IF Discriminants(a) # Discriminants(b)
         THEN lex_less(Discriminants(a), Discriminants(b))
    ELSE IF a[Len(a) - 1] # b[Len(b) - 1] THEN a[Len(a) - 1] > b[Len(b) - 1]
    ELSE lex_less(b[Len(b)], a[Len(a)])

\* The order of two route weights of one kind: higher precedence first, then
\* the discriminants, then the more specific path first, then the
\* lexicographically smaller resourceKey.
sorts_before(a, b) ==
    IF a[1] # b[1] THEN a[1] > b[1]
    ELSE IF Discriminants(a) # Discriminants(b)
         THEN lex_less(Discriminants(a), Discriminants(b))
    ELSE IF a[Len(a) - 1] # b[Len(b) - 1] THEN a[Len(a) - 1] > b[Len(b) - 1]
    ELSE lex_less(a[Len(a)], b[Len(b)])

RECURSIVE insert_member(_, _)
insert_member(sorted, m) ==
    IF sorted = <<>> THEN <<m>>
    ELSE IF sorts_before(route_weight[m], route_weight[Head(sorted)])
         THEN <<m>> \o sorted
    ELSE <<Head(sorted)>> \o insert_member(Tail(sorted), m)

RECURSIVE sort_members(_)
sort_members(members) ==
    IF members = <<>> THEN <<>>
    ELSE insert_member(sort_members(Tail(members)), Head(members))

order_pass ==
    /\ phase = "grouped"
    /\ groups' = [i \in 1..Len(groups) |->
                    [groups[i] EXCEPT !.members = sort_members(@)]]
    /\ phase' = "ordered"
    /\ UNCHANGED <<mapping_vars, input, warnings, binding, canary_vars, test_vars, post_vars>>

\* The kinds that support weighted canary routing.
Eligible(group) == mappings[group.members[1]].kind = "IRHTTPMapping"

balance_members(group) ==
    balance([j \in 1..Len(group.members) |-> mappings[group.members[j]].weight])

balance_pass ==
    /\ phase = "ordered"
    /\ groups' = [i \in 1..Len(groups) |->
                    IF Eligible(groups[i])
                    THEN [groups[i] EXCEPT !.weights = balance_members(groups[i]).weights]
                    ELSE groups[i]]
    /\ warnings' = {groups[i].groupId : i \in {j \in 1..Len(groups) :
                        Eligible(groups[j]) /\ balance_members(groups[j]).warning}}
    /\ phase' = "balanced"
    /\ UNCHANGED <<mapping_vars, input, binding, canary_vars, test_vars, post_vars>>

\* Bind every distinct host of the pass once, and record it on the mappings.
bind_pass ==
    /\ phase = "balanced"
    /\ binding' = [h \in {mappings[m].host : m \in PassIds} |->
                     match_result(h, tls_contexts)]
    /\ sni' = [m \in MappingIds |->
                 IF m \in PassIds
                 THEN sni_after_match(sni[m], binding'[mappings[m].host])
                 ELSE sni[m]]
    /\ matched' = [m \in MappingIds |->
                     IF m \in PassIds
                     THEN matched[m] \/ binding'[mappings[m].host] > None
                     ELSE matched[m]]
    /\ phase' = "bound"
    /\ UNCHANGED <<mappings, tls_contexts, group_id, route_weight, pc, ret,
                   setup_calls, rw_invoked, first_gid, first_rw>>
    /\ UNCHANGED <<input, groups, warnings, canary_vars, test_vars, post_vars>>

emit_pass ==
    /\ phase = "bound"
    /\ phase' = "emitted"
    /\ UNCHANGED <<mapping_vars, input, groups, warnings, binding, canary_vars, test_vars, post_vars>>

\* The mappings a pass may be given: HTTP mappings over two hosts, two
\* spellings of one prefix and an optional weight; TCP mappings over two
\* precedences and two discriminants; and the kinds that lack a capability.
PassMappings ==
    MappingInputs({"IRHTTPMapping"}, {"", "x.com"}, {<<"a">>, <<"a", "">>}, {0}, {0}, {0},
                  {NoWeight, Weight(70)})
    \cup MappingInputs({"IRTCPMapping"}, {"x.com"}, {<<"a">>}, {0, 1}, {0}, {0, 1}, {NoWeight})
    \cup MappingInputs({"IRBaseMapping", "GroupOnlyMapping", "WeightOnlyMapping"},
                       {"x.com"}, {<<"a">>}, {0}, {0}, {0}, {NoWeight})

\* The sequences without repetition over S.
Orderings(S) ==
    {q \in SeqsUpTo(S, Cardinality(S)) : \A i, j \in 1..Len(q) : q[i] = q[j] => i = j}

InitCompile ==
    /\ mappings \in [MappingIds -> PassMappings]
    /\ tls_contexts = <<[hosts |-> HostList(<<"x.com">>)],
                        [hosts |-> HostList(<<"y.com", "x.com">>)]>>
    /\ InitDerived
    /\ input \in Orderings(MappingIds) \ {<<>>}
    /\ phase = "collect"
    /\ groups = <<>>
    /\ warnings = {}
    /\ binding = <<>>
    /\ InitNoCanary
    /\ InitTests
    /\ InitNoDev

NextCompile ==
    \/ \E m \in MappingIds : NextToCollect(m) /\ setup_group_id(m)
    \/ \E m \in MappingIds : phase = "collect" /\ setup_route_weight(m)
    \/ abort_pass
    \/ group_pass
    \/ order_pass
    \/ balance_pass
    \/ bind_pass
    \/ emit_pass

SpecCompile == InitCompile /\ [][NextCompile]_vars

(***************************************************************************)
(* Claims about setup and the pass                                         *)
(***************************************************************************)
LacksCapability(m) ==
    ~OverridesGroupId(mappings[m].kind) \/ ~OverridesRouteWeight(mappings[m].kind)

PastCollect == phase \in {"grouped", "ordered", "balanced", "bound", "emitted"}

\* C3: for a mapping of a kind that lacks _group_id or _route_weight, setup
\* never returns True: once called it is left by the exception, at the first
\* statement when _group_id is the one missing; and a pass that holds such a
\* mapping never gets past Collect when that mapping's setup has run, and
\* never emits.
C3_MissingCapabilityFatal ==
    \A m \in MappingIds : LacksCapability(m) =>
        /\ pc[m] # "returned_true"
        /\ setup_calls[m] > 0 /\ ~OverridesGroupId(mappings[m].kind)
              => pc[m] = "raised_in_group_id"
        /\ setup_calls[m] > 0 /\ OverridesGroupId(mappings[m].kind)
              => pc[m] \in {"group_id_assigned", "raised_in_route_weight"}
        /\ m \in PassIds => ~PastCollect

\* The pass was aborted by a mapping whose kind has _group_id but no
\* _route_weight, after an earlier mapping had been set up.
C3_Witness ==
    /\ phase = "aborted"
    /\ \E m, o \in PassIds :
        /\ pc[m] = "raised_in_route_weight"
        /\ pc[o] = "returned_true"

\* The position of every occurrence of m in the groups.
PlacesOf(m) ==
    {p \in {<<i, j>> : i \in 1..Len(groups), j \in 1..NMappings} :
        p[2] <= Len(groups[p[1]].members) /\ groups[p[1]].members[p[2]] = m}

\* C6: after a successful Group step every mapping of the input is a member
\* of exactly one group, once, and that group's groupId is the mapping's
\* group_id; no group is empty or holds a mapping that is not in the input.
C6_Partition ==
    PastCollect =>
        /\ \A m \in PassIds :
            /\ Cardinality(PlacesOf(m)) = 1
            /\ \A p \in PlacesOf(m) : groups[p[1]].groupId = group_id[m]
        /\ \A i \in 1..Len(groups) :
            /\ groups[i].members # <<>>
            /\ \A j \in 1..Len(groups[i].members) : groups[i].members[j] \in PassIds
        /\ \A i, k \in 1..Len(groups) : groups[i].groupId = groups[k].groupId => i = k

\* A table was emitted in which some group has two members, from an input
\* that leaves no mapping out.
C6_Witness ==
    /\ phase = "emitted"
    /\ PassIds = MappingIds
    /\ \E i \in 1..Len(groups) : Len(groups[i].members) >= 2

Specificity(m) == Len(NormalizePrefix(mappings[m].prefix))

Ordered == phase \in {"ordered", "balanced", "bound", "emitted"}

\* C7 as claimed: in every group, of two members with the same precedence and
\* the same path specificity the one with the smaller resourceKey comes
\* first, whatever the kind.
C7_AsClaimed ==
    Ordered =>
        \A i \in 1..Len(groups) : \A j, k \in 1..Len(groups[i].members) :
            LET a == groups[i].members[j]
                b == groups[i].members[k]
            IN  /\ j < k
                /\ mappings[a].precedence = mappings[b].precedence
                /\ Specificity(a) = Specificity(b)
                => lex_less(RKey(a), RKey(b))

\* C7 amended: in every group, of two members with the same precedence, the
\* same type-specific discriminants and the same path specificity the one
\* with the smaller resourceKey comes first, whatever the order of the input.
C7_TotalOrderStability ==
    Ordered =>
        \A i \in 1..Len(groups) : \A j, k \in 1..Len(groups[i].members) :
            LET a == groups[i].members[j]
                b == groups[i].members[k]
            IN  /\ j < k
                /\ mappings[a].precedence = mappings[b].precedence
                /\ Discriminants(route_weight[a]) = Discriminants(route_weight[b])
                /\ Specificity(a) = Specificity(b)
                => lex_less(RKey(a), RKey(b))

\* Two TCP mappings that differ in resourceKey only share a group, and were
\* given with the larger resourceKey first.
C7_Witness ==
    /\ Ordered
    /\ \E i \in 1..Len(groups) : \E j, k \in 1..Len(groups[i].members) :
        LET a == groups[i].members[j]
            b == groups[i].members[k]
        IN  /\ j < k
            /\ mappings[a] = mappings[b]
            /\ mappings[a].kind = "IRTCPMapping"
            /\ \E x, y \in 1..Len(input) : x < y /\ input[x] = b /\ input[y] = a

C8_SetupOrder ==
    \A m \in MappingIds :
        /\ route_weight[m] # Unset => group_id[m] # Unset
        /\ pc[m] = "returned_true" => group_id[m] # Unset /\ route_weight[m] # Unset
        /\ pc[m] = "group_id_assigned" => group_id[m] # Unset
        /\ pc[m] = "raised_in_group_id" =>
            /\ ~rw_invoked[m]
            /\ group_id[m] = Unset
            /\ route_weight[m] = Unset

\* One mapping's setup raised in _group_id, another's assigned group_id and
\* then raised in _route_weight, leaving route_weight unset.
C8_Witness ==
    \E m, o \in MappingIds :
        /\ pc[m] = "raised_in_group_id"
        /\ OverridesRouteWeight(mappings[m].kind)
        /\ pc[o] = "raised_in_route_weight"
        /\ group_id[o] # Unset
        /\ route_weight[o] = Unset

(***************************************************************************)
(* AmbassadorTest.index (tests/abstract_tests.py): the first read gives    *)
(* the instance the current OFFSET and increments OFFSET; nothing locks.   *)
(* Each statement, and the load and the store of `OFFSET += 1`, is a step  *)
(* of its own, and the reads of distinct instances may interleave.         *)
(***************************************************************************)
other_vars == <<mapping_vars, compile_vars, canary_vars, post_vars>>

\* if self._index is None:
index_check(t) ==
    /\ index_pc[t] = "idle"
    /\ index_pc' = [index_pc EXCEPT ![t] = IF _index[t] = <<>> THEN "assign" ELSE "return"]
    /\ UNCHANGED <<OFFSET, _index, offset_read, index_returned, other_vars>>

\* self._index = AmbassadorTest.OFFSET
index_assign(t) ==
    /\ index_pc[t] = "assign"
    /\ _index' = [_index EXCEPT ![t] = <<OFFSET>>]
    /\ index_pc' = [index_pc EXCEPT ![t] = "load_offset"]
    /\ UNCHANGED <<OFFSET, offset_read, index_returned, other_vars>>

\* AmbassadorTest.OFFSET += 1, the load
index_load_offset(t) ==
    /\ index_pc[t] = "load_offset"
    /\ offset_read' = [offset_read EXCEPT ![t] = OFFSET]
    /\ index_pc' = [index_pc EXCEPT ![t] = "store_offset"]
    /\ UNCHANGED <<OFFSET, _index, index_returned, other_vars>>

\* AmbassadorTest.OFFSET += 1, the store
index_store_offset(t) ==
    /\ index_pc[t] = "store_offset"
    /\ OFFSET' = offset_read[t] + 1
    /\ index_pc' = [index_pc EXCEPT ![t] = "return"]
    /\ UNCHANGED <<_index, offset_read, index_returned, other_vars>>

\* return typecast(int, self._index)
index_return(t) ==
    /\ index_pc[t] = "return"
    /\ index_returned' = [index_returned EXCEPT ![t] = _index[t]]
    /\ index_pc' = [index_pc EXCEPT ![t] = "idle"]
    /\ UNCHANGED <<OFFSET, _index, offset_read, other_vars>>

InitIndex ==
    /\ InitTests
    /\ InitNoDev
    /\ InitNoCanary
    /\ InitNoPass
    /\ InitDerived
    /\ mappings = [m \in MappingIds |-> [kind |-> "IRHTTPMapping", host |-> "x.com",
                                         prefix |-> <<"a">>, precedence |-> 0, port |-> 0,
                                         disc |-> 0, weight |-> NoWeight]]
    /\ tls_contexts = <<>>

NextIndex ==
    \E t \in TestIds :
        \/ index_check(t)
        \/ index_assign(t)
        \/ index_load_offset(t)
        \/ index_store_offset(t)
        \/ index_return(t)

SpecIndex == InitIndex /\ [][NextIndex]_vars

HasIndex(t) == _index[t] # <<>>

\* C10 as claimed: no two instances hold the same index, what a read of
\* index returned is the instance's index, and once no read is under way
\* OFFSET is the number of instances that hold an index.
C10_AsClaimed ==
    /\ \A t, u \in TestIds : t # u /\ HasIndex(t) /\ HasIndex(u) => _index[t] # _index[u]
    /\ \A t \in TestIds : index_returned[t] # <<>> => index_returned[t] = _index[t]
    /\ (\A t \in TestIds : index_pc[t] = "idle")
          => OFFSET = Cardinality({t \in TestIds : HasIndex(t)})

(***************************************************************************)
(* AmbassadorTest.post_manifest (tests/abstract_tests.py).  The calls come *)
(* one after the other: a call runs to its return or to its exception      *)
(* before the next one starts.  KAT_SKIP_DOCKER and the three image        *)
(* variables are read from the environment by every call; an external      *)
(* command either exits with status 0 or does not.  A call that ended in   *)
(* pytest.exit may still be followed by further calls.                     *)
(***************************************************************************)
MaxPostCalls == 4

model_vars == <<mapping_vars, compile_vars, canary_vars>>

\* The call returns, or an exception leaves it.
post_end ==
    /\ post_self' = None
    /\ post_pc' = "idle"

\* if not DEV: return
\* if os.environ.get('KAT_SKIP_DOCKER'): return
\* image = os.environ["AMBASSADOR_DOCKER_IMAGE"] and the two that follow,
\* a KeyError when one is not set
post_manifest(t, skip_docker, images_set) ==
    /\ post_pc = "idle"
    /\ post_calls < MaxPostCalls
    /\ post_calls' = post_calls + 1
    /\ IF ~DEV \/ skip_docker \/ ~images_set
          THEN post_end
          ELSE post_self' = t /\ post_pc' = "check_built"
    /\ UNCHANGED <<DEV, IMAGE_BUILT, cleanups, builds, exit_called, launched,
                   test_vars, model_vars>>

post_check_built_leaves_flag(t) ==
    /\ post_self = t
    /\ post_pc = "check_built"
    /\ post_pc' = IF ~IMAGE_BUILT THEN "cleanup" ELSE "secret"
    /\ UNCHANGED <<DEV, IMAGE_BUILT, post_self, post_calls, cleanups, builds, exit_called,
                   launched, test_vars, model_vars>>

\* if not AmbassadorTest.IMAGE_BUILT:
\*     AmbassadorTest.IMAGE_BUILT = True
post_check_built(t) ==
    /\ post_self = t
    /\ post_pc = "check_built"
    /\ IF ~IMAGE_BUILT
          THEN IMAGE_BUILT' = TRUE /\ post_pc' = "cleanup"
          ELSE IMAGE_BUILT' = IMAGE_BUILT /\ post_pc' = "secret"
    /\ UNCHANGED <<DEV, post_self, post_calls, cleanups, builds, exit_called, launched,
                   test_vars, model_vars>>

\* run("bash", "-c", 'docker kill ...') and run("bash", "-c", 'docker rm ...'):
\* what the two commands exit with is not looked at
post_cleanup(t) ==
    /\ post_self = t
    /\ post_pc = "cleanup"
    /\ cleanups' = cleanups + 1
    /\ post_pc' = "build"
    /\ UNCHANGED <<DEV, IMAGE_BUILT, post_self, post_calls, builds, exit_called, launched,
                   test_vars, model_vars>>

\* result = run("docker", "build", ...)
\* result.check_returncode(), and pytest.exit("container failed to build")
\* when it raises
post_build(t, ok) ==
    /\ post_self = t
    /\ post_pc = "build"
    /\ builds' = builds + 1
    /\ IF ok
          THEN post_pc' = "secret" /\ UNCHANGED <<post_self, exit_called>>
          ELSE exit_called' = TRUE /\ post_end
    /\ UNCHANGED <<DEV, IMAGE_BUILT, post_calls, cleanups, launched, test_vars, model_vars>>

\* The secret is read from /tmp/k8s-<name>.yaml or fetched with kubectl,
\* parsed and written out to the secret directory; a failed kubectl, a
\* parse error or a secret without data raises.
post_secret(t, ok) ==
    /\ post_self = t
    /\ post_pc = "secret"
    /\ IF ok
          THEN post_pc' = "ports" /\ UNCHANGED post_self
          ELSE post_end
    /\ UNCHANGED <<DEV, IMAGE_BUILT, post_calls, cleanups, builds, exit_called, launched,
                   test_vars, model_vars>>

\* ports = ["%s:8877" % (8877 + self.index), ...]: the first read of
\* self.index gives the instance the current OFFSET and increments OFFSET
post_ports(t) ==
    /\ post_self = t
    /\ post_pc = "ports"
    /\ index_pc[t] = "idle"
    /\ _index' = IF _index[t] = <<>> THEN [_index EXCEPT ![t] = <<OFFSET>>] ELSE _index
    /\ OFFSET' = IF _index[t] = <<>> THEN OFFSET + 1 ELSE OFFSET
    /\ index_returned' = [index_returned EXCEPT ![t] = _index'[t]]
    /\ post_pc' = "launch"
    /\ UNCHANGED <<index_pc, offset_read, DEV, IMAGE_BUILT, post_self, post_calls, cleanups,
                   builds, exit_called, launched, model_vars>>

\* result = run(*command), the `docker run` of the instance's container
\* result.check_returncode(): the call returns or raises
post_launch(t) ==
    /\ post_self = t
    /\ post_pc = "launch"
    /\ launched' = launched \cup {t}
    /\ post_end
    /\ UNCHANGED <<DEV, IMAGE_BUILT, post_calls, cleanups, builds, exit_called,
                   test_vars, model_vars>>

\* DEV is whatever AMBASSADOR_DEV made it when the module was loaded.
InitPost ==
    /\ InitTests
    /\ DEV \in BOOLEAN
    /\ InitNoCanary
    /\ InitNoPass
    /\ InitDerived
    /\ mappings = [m \in MappingIds |-> [kind |-> "IRHTTPMapping", host |-> "x.com",
                                         prefix |-> <<"a">>, precedence |-> 0, port |-> 0,
                                         disc |-> 0, weight |-> NoWeight]]
    /\ tls_contexts = <<>>

NextPost ==
    \E t \in TestIds :
        \/ \E skip_docker, images_set \in BOOLEAN : post_manifest(t, skip_docker, images_set)
        \/ post_check_built(t)
        \/ post_cleanup(t)
        \/ \E ok \in BOOLEAN : post_build(t, ok)
        \/ \E ok \in BOOLEAN : post_secret(t, ok)
        \/ post_ports(t)
        \/ post_launch(t)

SpecPost == InitPost /\ [][NextPost]_vars

BuildStarted == post_pc \in {"cleanup", "build"} \/ cleanups > 0 \/ builds > 0

LaunchStarted == post_pc \in {"ports", "launch"} \/ launched # {}

BuildOnce ==
    /\ cleanups <= 1
    /\ builds <= 1
    /\ BuildStarted => IMAGE_BUILT
    /\ LaunchStarted => builds = 1

====
